---- MODULE Spec2Model ----
(***************************************************************************)
(* Settings store, settings mutations and model registry resolution of     *)
(* the chat application (convex/settings.ts, convex/lib/models.ts).         *)
(*                                                                         *)
(* Strings that the code parses or concatenates (provider ids, adapters,   *)
(* model ids, keys) are sequences of tokens; ":" and "i3-" are tokens, so  *)
(* split(":")[0], startsWith("i3-") and the `${a}:${b}` template are       *)
(* computed, not assumed.  <<>> is the empty string.  A JS object is a     *)
(* function whose DOMAIN is the set of its own defined properties.          *)
(***************************************************************************)
EXTENDS Integers, Sequences, FiniteSets, TLC

\* db      : the "settings" table, documents in creation order (_id = index)
\* badKeys : the ciphertexts on which decryptKey fails
\* last    : the last request handled: its name, arguments and outcome, and
\*           for a successful mutation the settings it had read (before);
\*           a mutation that wrote in a step of its own also records what
\*           the table held for the caller at that moment (found)
\* pending : per request slot, a mutation that has read the caller's settings
\*           and has not written yet
\* catalog : MODELS_SHARED as the browser holds it
\* panel   : the props and the state of one mounted Reasoning component
VARIABLES db, badKeys, last, pending, catalog, panel

vars == <<db, badKeys, last, pending, catalog, panel>>

\* ------------------------------------------------------------------ bounds
NumKeys == 1

\* the most documents the table holds where a request can be repeated to
\* insert without end
MaxRecords == 3

\* ----------------------------------------------------------------- strings
EmptyString == <<>>

KeyNames == <<"sk-1", "sk-2", "sk-3", "sk-4">>

Keys == { <<KeyNames[i]>> : i \in 1..NumKeys }

RECURSIVE FirstColon(_, _)
FirstColon(s, i) ==
    IF i > Len(s) THEN 0
    ELSE IF s[i] = ":" THEN i
    ELSE FirstColon(s, i + 1)

\* adapter.split(":")[0]
ProviderSegment(adapter) ==
    LET c == FirstColon(adapter, 1)
    IN  IF c = 0 THEN adapter ELSE SubSeq(adapter, 1, c - 1)

\* provider.startsWith("i3-")
StartsWithI3(s) == Len(s) >= 1 /\ s[1] = "i3-"

\* `${providerId}:${modelId}`
AdapterOf(providerId, modelId) == providerId \o <<":">> \o modelId

\* ------------------------------------------------------------ JS objects
EmptyObject == [k \in {} |-> TRUE]

Put(obj, k, v) == [x \in DOMAIN obj \cup {k} |-> IF x = k THEN v ELSE obj[x]]

\* { ...a, ...b }
Spread(a, b) == [f \in DOMAIN a \cup DOMAIN b |-> IF f \in DOMAIN b THEN b[f] ELSE a[f]]

null == [null |-> TRUE]

\* a string-valued optional property that is present and non-empty
Truthy(obj, f) == f \in DOMAIN obj /\ obj[f] # EmptyString

\* ------------------------------------------------------------ encryption
encryptKey(plain) == <<"enc">> \o plain

decryptThrows(cipher) == cipher \in badKeys

decryptKey(cipher) == IF cipher = EmptyString THEN EmptyString ELSE Tail(cipher)

Ciphertexts == {EmptyString} \cup { encryptKey(k) : k \in Keys }

\* --------------------------------------------------------------- catalog
CoreProviders == << <<"openai">>, <<"anthropic">>, <<"google">>, <<"groq">>, <<"fal">> >>

MODELS_SHARED == <<
    [id |-> <<"deepseek-v3">>,
     adapters |-> << <<"openrouter", ":", "deepseek/deepseek-chat-v3-0324", ":", "free">> >>,
     abilities |-> <<"function_calling">>],
    [id |-> <<"deepseek-r1">>,
     adapters |-> << <<"openrouter", ":", "deepseek/deepseek-r1-0528", ":", "free">> >>,
     abilities |-> <<"reasoning", "function_calling">>],
    [id |-> <<"gemini-2.5-flash">>,
     adapters |-> << <<"google", ":", "gemini-2.5-flash">> >>,
     abilities |-> <<"vision", "function_calling", "reasoning", "pdf", "effort_control">>],
    [id |-> <<"gpt-4o">>,
     adapters |-> << <<"openai", ":", "gpt-4o">>, <<"openrouter", ":", "openai/gpt-4o">> >>,
     abilities |-> <<"vision", "function_calling", "pdf">>],
    [id |-> <<"gpt-4o-mini">>,
     adapters |-> << <<"i3-", "openai", ":", "gpt-4o-mini">>, <<"openai", ":", "gpt-4o-mini">> >>,
     abilities |-> <<"vision", "function_calling", "pdf">>],
    [id |-> <<"gpt-4.1">>,
     adapters |-> << <<"openai", ":", "gpt-4.1">>, <<"openrouter", ":", "openai/gpt-4.1">> >>,
     abilities |-> <<"vision", "function_calling", "pdf">>],
    [id |-> <<"gpt-4.1-mini">>,
     adapters |-> << <<"i3-", "openai", ":", "gpt-4.1-mini">>, <<"openai", ":", "gpt-4.1-mini">> >>,
     abilities |-> <<"vision", "function_calling", "pdf">>],
    [id |-> <<"gpt-4.1-nano">>,
     adapters |-> << <<"i3-", "openai", ":", "gpt-4.1-nano">>, <<"openai", ":", "gpt-4.1-nano">> >>,
     abilities |-> <<"vision", "function_calling", "pdf">>],
    [id |-> <<"claude-opus-4">>,
     adapters |-> << <<"anthropic", ":", "claude-opus-4-0">>,
                     <<"openrouter", ":", "anthropic/claude-opus-4">> >>,
     abilities |-> <<"reasoning", "vision", "function_calling", "pdf", "effort_control">>],
    [id |-> <<"claude-sonnet-4">>,
     adapters |-> << <<"anthropic", ":", "claude-sonnet-4-0">>,
                     <<"openrouter", ":", "anthropic/claude-sonnet-4">> >>,
     abilities |-> <<"reasoning", "vision", "function_calling", "pdf", "effort_control">>],
    [id |-> <<"claude-3-7-sonnet">>,
     adapters |-> << <<"anthropic", ":", "claude-3-7-sonnet">>,
                     <<"openrouter", ":", "anthropic/claude-3.7-sonnet">> >>,
     abilities |-> <<"reasoning", "vision", "function_calling", "pdf", "effort_control">>],
    [id |-> <<"gemini-2.5-flash-lite">>,
     adapters |-> << <<"i3-", "google", ":", "gemini-2.5-flash-lite-preview-06-17">>,
                     <<"google", ":", "gemini-2.5-flash-lite-preview-06-17">> >>,
     abilities |-> <<"vision", "function_calling", "reasoning", "pdf", "effort_control">>],
    [id |-> <<"gemini-2.0-flash">>,
     adapters |-> << <<"i3-", "google", ":", "gemini-2.0-flash">>,
                     <<"google", ":", "gemini-2.0-flash">>,
                     <<"openrouter", ":", "google/gemini-2.0-flash-001">> >>,
     abilities |-> <<"vision", "function_calling", "pdf">>],
    [id |-> <<"gemini-2.0-flash-lite">>,
     adapters |-> << <<"i3-", "google", ":", "gemini-2.0-flash-lite">>,
                     <<"google", ":", "gemini-2.0-flash-lite">> >>,
     abilities |-> <<"vision", "function_calling", "pdf">>],
    [id |-> <<"gemini-2.0-flash-image-generation">>,
     adapters |-> << <<"i3-", "google", ":", "gemini-2.0-flash-exp">>,
                     <<"google", ":", "gemini-2.0-flash-exp">> >>,
     abilities |-> <<"vision">>],
    [id |-> <<"sdxl-lightning">>,
     adapters |-> << <<"fal", ":", "fal-ai/fast-lightning-sdxl">> >>,
     abilities |-> <<>>],
    [id |-> <<"flux-schnell">>,
     adapters |-> << <<"fal", ":", "fal-ai/flux/schnell">> >>,
     abilities |-> <<>>],
    [id |-> <<"flux-dev">>,
     adapters |-> << <<"fal", ":", "fal-ai/flux/dev">> >>,
     abilities |-> <<>>],
    [id |-> <<"google-imagen-4">>,
     adapters |-> << <<"fal", ":", "fal-ai/imagen4/preview">> >>,
     abilities |-> <<>>],
    [id |-> <<"llama-4-scout-17b-16e-instruct">>,
     adapters |-> << <<"groq", ":", "meta-llama/llama-4-scout-17b-16e-instruct">> >>,
     abilities |-> <<"vision">>],
    [id |-> <<"llama-4-maverick-17b-128e-instruct">>,
     adapters |-> << <<"groq", ":", "meta-llama/llama-4-maverick-17b-128e-instruct">> >>,
     abilities |-> <<"vision">>],
    [id |-> <<"llama-3-1-8b-instant">>,
     adapters |-> << <<"i3-", "groq", ":", "llama-3.1-8b-instant">>,
                     <<"groq", ":", "llama-3.1-8b-instant">> >>,
     abilities |-> <<>>],
    [id |-> <<"whisper-large-v3-turbo">>,
     adapters |-> << <<"groq", ":", "whisper-large-v3-turbo">> >>,
     abilities |-> <<>>]
>>

\* -------------------------------------------------------- settings store
Anon == "anonymous"

Users == {"u1", "u2"}

DefaultSettings(userId) ==
    [userId |-> userId,
     searchProvider |-> "firecrawl",
     coreAIProviders |-> EmptyObject,
     customAIProviders |-> EmptyObject,
     customModels |-> EmptyObject,
     customThemes |-> <<>>,
     generalProviders |-> EmptyObject,
     onboardingCompleted |-> FALSE]

RECURSIVE FirstByUser(_, _, _)
FirstByUser(table, userId, i) ==
    IF i > Len(table) THEN 0
    ELSE IF table[i].userId = userId THEN i
    ELSE FirstByUser(table, userId, i + 1)

getSettings(table, userId) ==
    LET i == FirstByUser(table, userId, 1)
    IN  IF i = 0 THEN DefaultSettings(userId) ELSE table[i]

\* ctx.db.patch(id, value): shallow merge of value into the stored document
Patch(table, id, value) == [table EXCEPT ![id] = Spread(table[id], value)]

\* ctx.db.insert("settings", value): a new document with a fresh _id
Insert(table, value) == Append(table, Spread(value, [_id |-> Len(table) + 1]))

\* mutant: a patch is dropped when the stored document is no longer the one
\* that was read
Save_Guarded(table, settings, newSettings) ==
    IF "_id" \in DOMAIN settings
    THEN IF table[settings._id] = settings
         THEN Patch(table, settings._id, newSettings)
         ELSE table
    ELSE Insert(table, newSettings)

\* if (settings._id) patch else insert
Save(table, settings, newSettings) ==
    IF "_id" \in DOMAIN settings
    THEN Patch(table, settings._id, newSettings)
    ELSE Insert(table, newSettings)

\* ---------------------------------------------------- registry resolution
\* mutant: the enabled flag of a credential is not consulted
RegistryProviders_IgnoreEnabled(settings) ==
    LET core == settings.coreAIProviders
        custom == settings.customAIProviders
        fromCore ==
            [id \in DOMAIN core |->
                [key |-> decryptKey(core[id].encryptedKey), name |-> id]]
        fromCustom ==
            [id \in DOMAIN custom |->
                [key |-> decryptKey(custom[id].encryptedKey),
                 endpoint |-> custom[id].endpoint,
                 name |-> custom[id].name]]
    IN  Spread(fromCore, fromCustom)

\* lines 72-88: the enabled core credentials, then the enabled custom ones
RegistryProviders(settings) ==
    LET core == settings.coreAIProviders
        custom == settings.customAIProviders
        fromCore ==
            [id \in {p \in DOMAIN core : core[p].enabled} |->
                [key |-> decryptKey(core[id].encryptedKey), name |-> id]]
        fromCustom ==
            [id \in {p \in DOMAIN custom : custom[p].enabled} |->
                [key |-> decryptKey(custom[id].encryptedKey),
                 endpoint |-> custom[id].endpoint,
                 name |-> custom[id].name]]
    IN  Spread(fromCore, fromCustom)

\* decryptKey is awaited outside any try/catch (lines 76 and 84)
RegistryThrows(settings) ==
    \/ \E p \in DOMAIN settings.coreAIProviders :
          /\ settings.coreAIProviders[p].enabled
          /\ decryptThrows(settings.coreAIProviders[p].encryptedKey)
    \/ \E p \in DOMAIN settings.customAIProviders :
          /\ settings.customAIProviders[p].enabled
          /\ decryptThrows(settings.customAIProviders[p].encryptedKey)

\* mutant: the internal prefix is not honoured
AdapterAvailable_NoInternal(adapter, providers) ==
    ProviderSegment(adapter) \in DOMAIN providers

\* provider in providers || provider.startsWith("i3-")
AdapterAvailable(adapter, providers) ==
    LET provider == ProviderSegment(adapter)
    IN  provider \in DOMAIN providers \/ StartsWithI3(provider)

\* mutant: usable adapters are collected in reverse catalog order
RECURSIVE AvailableAdapters_Reversed(_, _, _)
AvailableAdapters_Reversed(adapters, providers, i) ==
    IF i > Len(adapters) THEN <<>>
    ELSE IF AdapterAvailable(adapters[i], providers)
         THEN AvailableAdapters_Reversed(adapters, providers, i + 1) \o <<adapters[i]>>
         ELSE AvailableAdapters_Reversed(adapters, providers, i + 1)

RECURSIVE AvailableAdapters(_, _, _)
AvailableAdapters(adapters, providers, i) ==
    IF i > Len(adapters) THEN <<>>
    ELSE IF AdapterAvailable(adapters[i], providers)
         THEN <<adapters[i]>> \o AvailableAdapters(adapters, providers, i + 1)
         ELSE AvailableAdapters(adapters, providers, i + 1)

CatalogEntry(model, providers) ==
    [id |-> model.id,
     adapters |-> AvailableAdapters(model.adapters, providers, 1),
     abilities |-> model.abilities]

CustomEntry(model) ==
    [id |-> model.modelId,
     adapters |-> << AdapterOf(model.providerId, model.modelId) >>,
     abilities |-> model.abilities,
     customProviderId |-> model.providerId]

RECURSIVE CatalogModels(_, _)
CatalogModels(providers, i) ==
    IF i > Len(MODELS_SHARED) THEN EmptyObject
    ELSE Spread([k \in {MODELS_SHARED[i].id} |-> CatalogEntry(MODELS_SHARED[i], providers)],
                CatalogModels(providers, i + 1))

\* mutant: disabled custom models are synthesized too
RegistryModels_IgnoreEnabled(settings, providers) ==
    LET custom == settings.customModels
        fromCustom == [k \in DOMAIN custom |-> CustomEntry(custom[k])]
    IN  Spread(CatalogModels(providers, 1), fromCustom)

RegistryModels(settings, providers) ==
    LET custom == settings.customModels
        fromCustom ==
            [k \in {m \in DOMAIN custom : custom[m].enabled} |-> CustomEntry(custom[k])]
    IN  Spread(CatalogModels(providers, 1), fromCustom)

getUserRegistryInternal(table, userId) ==
    LET settings == getSettings(table, userId)
        providers == RegistryProviders(settings)
    IN  [providers |-> providers,
         models |-> RegistryModels(settings, providers),
         settings |-> settings]

\* ------------------------------------------------------- partial update
\* mutant: without a new key the stored ciphertext is cleared
CarriedKey_Cleared(update, existing, id) ==
    IF Truthy(update, "newKey") THEN encryptKey(update.newKey) ELSE EmptyString

\* encryptedKey: update.newKey ? await encryptKey(update.newKey)
\*                             : existing?.encryptedKey || ""
CarriedKey(update, existing, id) ==
    IF Truthy(update, "newKey") THEN encryptKey(update.newKey)
    ELSE IF id \in DOMAIN existing THEN existing[id].encryptedKey
    ELSE EmptyString

\* mutant: the stored core providers are replaced by the named ones
PartialCore_Replaced(settings, args) ==
    IF "coreProviderUpdates" \notin DOMAIN args THEN settings.coreAIProviders
    ELSE LET upd == args.coreProviderUpdates
             old == settings.coreAIProviders
         IN  [id \in DOMAIN upd |->
                [enabled |-> upd[id].enabled,
                 encryptedKey |-> CarriedKey(upd[id], old, id)]]

PartialCore(settings, args) ==
    IF "coreProviderUpdates" \notin DOMAIN args THEN settings.coreAIProviders
    ELSE LET upd == args.coreProviderUpdates
             old == settings.coreAIProviders
         IN  [id \in DOMAIN old \cup DOMAIN upd |->
                IF id \in DOMAIN upd
                THEN [enabled |-> upd[id].enabled,
                      encryptedKey |-> CarriedKey(upd[id], old, id)]
                ELSE old[id]]

\* mutant: a null update leaves the stored provider where it is
PartialCustom_NullKept(settings, args) ==
    IF "customProviderUpdates" \notin DOMAIN args THEN settings.customAIProviders
    ELSE LET upd == args.customProviderUpdates
             old == settings.customAIProviders
             named == {id \in DOMAIN upd : upd[id] # null}
         IN  [id \in DOMAIN old \cup named |->
                IF id \in named
                THEN [name |-> upd[id].name,
                      enabled |-> upd[id].enabled,
                      endpoint |-> upd[id].endpoint,
                      encryptedKey |-> CarriedKey(upd[id], old, id)]
                ELSE old[id]]

PartialCustom(settings, args) ==
    IF "customProviderUpdates" \notin DOMAIN args THEN settings.customAIProviders
    ELSE LET upd == args.customProviderUpdates
             old == settings.customAIProviders
             deleted == {id \in DOMAIN upd : upd[id] = null}
         IN  [id \in (DOMAIN old \cup DOMAIN upd) \ deleted |->
                IF id \in DOMAIN upd
                THEN [name |-> upd[id].name,
                      enabled |-> upd[id].enabled,
                      endpoint |-> upd[id].endpoint,
                      encryptedKey |-> CarriedKey(upd[id], old, id)]
                ELSE old[id]]

GeneralEntry(providerId, update, existing) ==
    LET base == [enabled |-> update.enabled,
                 encryptedKey |-> CarriedKey(update, existing, providerId)]
        extra == IF providerId = "brave" THEN {"country", "searchLang", "safesearch"}
                 ELSE IF providerId = "serper" THEN {"language", "country"}
                 ELSE {}
    IN  Spread(base, [f \in extra \cap DOMAIN update |-> update[f]])

PartialGeneral(settings, args) ==
    IF "generalProviderUpdates" \notin DOMAIN args THEN settings.generalProviders
    ELSE LET upd == args.generalProviderUpdates
             old == settings.generalProviders
         IN  [id \in DOMAIN old \cup DOMAIN upd |->
                IF id \in DOMAIN upd THEN GeneralEntry(id, upd[id], old) ELSE old[id]]

\* mutant: a null update leaves the stored custom model where it is
PartialModels_NullKept(settings, args) ==
    IF "customModelUpdates" \notin DOMAIN args THEN settings.customModels
    ELSE LET upd == args.customModelUpdates
             old == settings.customModels
             named == {id \in DOMAIN upd : upd[id] # null}
         IN  [id \in DOMAIN old \cup named |->
                IF id \in named THEN upd[id] ELSE old[id]]

PartialModels(settings, args) ==
    IF "customModelUpdates" \notin DOMAIN args THEN settings.customModels
    ELSE LET upd == args.customModelUpdates
             old == settings.customModels
             deleted == {id \in DOMAIN upd : upd[id] = null}
         IN  [id \in (DOMAIN old \cup DOMAIN upd) \ deleted |->
                IF id \in DOMAIN upd THEN upd[id] ELSE old[id]]

\* mutant: only the first element is compared
Includes_FirstOnly(seq, x) == seq # <<>> /\ seq[1] = x

Includes(seq, x) == \E i \in 1..Len(seq) : seq[i] = x

MaxThemes == 5

\* mutant: the partial update appends without looking at the cap
PartialThemes_NoCap(settings, args) ==
    LET existing == settings.customThemes
        added == IF /\ Truthy(args, "addTheme")
                    /\ ~Includes(existing, args.addTheme)
                 THEN Append(existing, args.addTheme)
                 ELSE existing
    IN  IF Truthy(args, "removeTheme")
        THEN SelectSeq(added, LAMBDA t : t # args.removeTheme)
        ELSE added

PartialThemes(settings, args) ==
    LET existing == settings.customThemes
        added == IF /\ Truthy(args, "addTheme")
                    /\ ~Includes(existing, args.addTheme)
                    /\ Len(existing) < MaxThemes
                 THEN Append(existing, args.addTheme)
                 ELSE existing
    IN  IF Truthy(args, "removeTheme")
        THEN SelectSeq(added, LAMBDA t : t # args.removeTheme)
        ELSE added

PartialNewSettings(settings, args) ==
    Spread(settings,
           [searchProvider |-> IF "searchProvider" \in DOMAIN args
                               THEN args.searchProvider ELSE settings.searchProvider,
            coreAIProviders |-> PartialCore(settings, args),
            customAIProviders |-> PartialCustom(settings, args),
            generalProviders |-> PartialGeneral(settings, args),
            customModels |-> PartialModels(settings, args),
            customThemes |-> PartialThemes(settings, args)])

\* ---------------------------------------------------------- full update
\* the fields of NonSensitiveUserSettings (convex/schema/settings.ts)
NonSensitiveFields ==
    {"userId", "searchProvider", "customModels", "customThemes", "onboardingCompleted"}

\* mutant: the supplied core providers are merged into the stored map
FullCore_Merged(settings, args) ==
    [id \in DOMAIN settings.coreAIProviders \cup DOMAIN args.coreProviders |->
        IF id \in DOMAIN args.coreProviders
        THEN [enabled |-> args.coreProviders[id].enabled,
              encryptedKey |->
                 CarriedKey(args.coreProviders[id], settings.coreAIProviders, id)]
        ELSE settings.coreAIProviders[id]]

FullCore(settings, args) ==
    [id \in DOMAIN args.coreProviders |->
        [enabled |-> args.coreProviders[id].enabled,
         encryptedKey |-> CarriedKey(args.coreProviders[id], settings.coreAIProviders, id)]]

\* settings.customAIProviders[providerId].encryptedKey, without ?. and || ""
FullCustomThrows(settings, args) ==
    \E id \in DOMAIN args.customProviders :
        /\ ~Truthy(args.customProviders[id], "newKey")
        /\ id \notin DOMAIN settings.customAIProviders

FullCustom(settings, args) ==
    [id \in DOMAIN args.customProviders |->
        [enabled |-> args.customProviders[id].enabled,
         endpoint |-> args.customProviders[id].endpoint,
         name |-> args.customProviders[id].name,
         encryptedKey |->
            IF Truthy(args.customProviders[id], "newKey")
            THEN encryptKey(args.customProviders[id].newKey)
            ELSE settings.customAIProviders[id].encryptedKey]]

GeneralProviderIds == {"supermemory", "firecrawl", "tavily", "brave", "serper"}

\* mutant: general providers start from an empty object, as the AI providers do
FullGeneral_NotCarried(settings, args) ==
    LET old == settings.generalProviders
        upd == IF "generalProviders" \in DOMAIN args THEN args.generalProviders
               ELSE EmptyObject
        merged == [id \in DOMAIN upd |-> GeneralEntry(id, upd[id], old)]
    IN  IF "supermemory" \in DOMAIN args
        THEN Put(merged, "supermemory",
                 [enabled |-> args.supermemory.enabled,
                  encryptedKey |-> CarriedKey(args.supermemory, old, "supermemory")])
        ELSE merged

\* lines 226-232, 258-295 and the backward compatible block 298-305
FullGeneral(settings, args) ==
    LET old == settings.generalProviders
        carried == [id \in GeneralProviderIds \cap DOMAIN old |-> old[id]]
        upd == IF "generalProviders" \in DOMAIN args THEN args.generalProviders
               ELSE EmptyObject
        merged == [id \in DOMAIN carried \cup DOMAIN upd |->
                     IF id \in DOMAIN upd THEN GeneralEntry(id, upd[id], old)
                     ELSE carried[id]]
    IN  IF "supermemory" \in DOMAIN args
        THEN Put(merged, "supermemory",
                 [enabled |-> args.supermemory.enabled,
                  encryptedKey |-> CarriedKey(args.supermemory, old, "supermemory")])
        ELSE merged

FullNewSettings(settings, args) ==
    Spread(args.baseSettings,
           [coreAIProviders |-> FullCore(settings, args),
            customAIProviders |-> FullCustom(settings, args),
            generalProviders |-> FullGeneral(settings, args)])

\* ------------------------------------------------------------- actions
GetUserRegistryInternal(userId) ==
    LET settings == getSettings(db, userId)
    IN  /\ last' = IF RegistryThrows(settings)
                   THEN [op |-> "getUserRegistryInternal", userId |-> userId,
                         status |-> "error"]
                   ELSE [op |-> "getUserRegistryInternal", userId |-> userId,
                         status |-> "ok",
                         value |-> getUserRegistryInternal(db, userId)]
        /\ UNCHANGED <<db, badKeys, pending, catalog, panel>>

\* args validators, lines 435-443 and 460-488: the values of
\* coreProviderUpdates and generalProviderUpdates are objects, never null
PartialArgsValid(args) ==
    /\ "coreProviderUpdates" \in DOMAIN args =>
          \A id \in DOMAIN args.coreProviderUpdates : args.coreProviderUpdates[id] # null
    /\ "generalProviderUpdates" \in DOMAIN args =>
          \A id \in DOMAIN args.generalProviderUpdates :
              args.generalProviderUpdates[id] # null

UpdateUserSettingsPartial(caller, args) ==
    IF ~PartialArgsValid(args)
    THEN /\ last' = [op |-> "updateUserSettingsPartial", caller |-> caller,
                     args |-> args, status |-> "invalid"]
         /\ UNCHANGED <<db, badKeys, pending, catalog, panel>>
    ELSE IF caller = Anon
    THEN /\ last' = [op |-> "updateUserSettingsPartial", caller |-> caller,
                     args |-> args, status |-> "unauthorized"]
         /\ UNCHANGED <<db, badKeys, pending, catalog, panel>>
    ELSE LET settings == getSettings(db, caller)
         IN  /\ db' = Save(db, settings, PartialNewSettings(settings, args))
             /\ last' = [op |-> "updateUserSettingsPartial", caller |-> caller,
                         args |-> args, status |-> "ok", before |-> settings]
             /\ UNCHANGED <<badKeys, pending, catalog, panel>>

UpdateUserSettings(caller, args) ==
    LET settings == getSettings(db, args.userId)
        outcome == IF caller = Anon \/ caller # args.userId THEN "unauthorized"
                   ELSE IF FullCustomThrows(settings, args) THEN "error"
                   ELSE "ok"
    IN  /\ db' = IF outcome = "ok"
                 THEN Save(db, settings, FullNewSettings(settings, args))
                 ELSE db
        /\ last' = IF outcome = "ok"
                   THEN [op |-> "updateUserSettings", caller |-> caller,
                         args |-> args, status |-> outcome, before |-> settings]
                   ELSE [op |-> "updateUserSettings", caller |-> caller,
                         args |-> args, status |-> outcome]
        /\ UNCHANGED <<badKeys, pending, catalog, panel>>

\* mutant: a read that finds no record stores the defaults
GetUserSettings_Persisting(caller) ==
    /\ last' = IF caller = Anon
               THEN [op |-> "getUserSettings", caller |-> caller,
                     status |-> "unauthorized"]
               ELSE [op |-> "getUserSettings", caller |-> caller,
                     status |-> "ok", value |-> getSettings(db, caller)]
    /\ db' = IF caller # Anon /\ "_id" \notin DOMAIN getSettings(db, caller)
             THEN Insert(db, DefaultSettings(caller))
             ELSE db
    /\ UNCHANGED <<badKeys, pending, catalog, panel>>

GetUserSettings(caller) ==
    /\ last' = IF caller = Anon
               THEN [op |-> "getUserSettings", caller |-> caller,
                     status |-> "unauthorized"]
               ELSE [op |-> "getUserSettings", caller |-> caller,
                     status |-> "ok", value |-> getSettings(db, caller)]
    /\ UNCHANGED <<db, badKeys, pending, catalog, panel>>

GetUserSettingsInternal(userId) ==
    /\ last' = [op |-> "getUserSettingsInternal", userId |-> userId,
                status |-> "ok", value |-> getSettings(db, userId)]
    /\ UNCHANGED <<db, badKeys, pending, catalog, panel>>

\* ------------------------------------------------- themes and onboarding
\* mutant: the cap is checked before the duplicate
AddUserThemeOutcome_CapFirst(settings, url) ==
    IF Len(settings.customThemes) >= MaxThemes THEN "error"
    ELSE IF Includes(settings.customThemes, url) THEN "unchanged"
    ELSE "write"

\* lines 323-326: what addUserTheme does with the settings it has read
AddUserThemeOutcome(settings, url) ==
    IF Includes(settings.customThemes, url) THEN "unchanged"
    ELSE IF Len(settings.customThemes) >= MaxThemes THEN "error"
    ELSE "write"

AddUserThemeNewSettings(settings, url) ==
    Spread(settings, [customThemes |-> Append(settings.customThemes, url)])

\* mutant: when the URL is not in the list the last entry is dropped
DeleteUserThemeNewSettings_DropsLast(settings, url) ==
    Spread(settings,
           [customThemes |->
               IF Includes(settings.customThemes, url)
               THEN SelectSeq(settings.customThemes, LAMBDA t : t # url)
               ELSE SubSeq(settings.customThemes, 1, Len(settings.customThemes) - 1)])

DeleteUserThemeNewSettings(settings, url) ==
    Spread(settings,
           [customThemes |-> SelectSeq(settings.customThemes, LAMBDA t : t # url)])

CompleteOnboardingNewSettings(settings) ==
    Spread(settings, [onboardingCompleted |-> TRUE])

AddUserTheme(caller, url) ==
    LET settings == getSettings(db, caller)
        outcome == IF caller = Anon THEN "unauthorized"
                   ELSE AddUserThemeOutcome(settings, url)
    IN  /\ db' = IF outcome = "write"
                 THEN Save(db, settings, AddUserThemeNewSettings(settings, url))
                 ELSE db
        /\ last' = IF outcome \in {"write", "unchanged"}
                   THEN [op |-> "addUserTheme", caller |-> caller, args |-> [url |-> url],
                         status |-> "ok", before |-> settings]
                   ELSE [op |-> "addUserTheme", caller |-> caller, args |-> [url |-> url],
                         status |-> outcome]
        /\ UNCHANGED <<badKeys, pending, catalog, panel>>

DeleteUserTheme(caller, url) ==
    IF caller = Anon
    THEN /\ last' = [op |-> "deleteUserTheme", caller |-> caller, args |-> [url |-> url],
                     status |-> "unauthorized"]
         /\ UNCHANGED <<db, badKeys, pending, catalog, panel>>
    ELSE LET settings == getSettings(db, caller)
         IN  /\ db' = Save(db, settings, DeleteUserThemeNewSettings(settings, url))
             /\ last' = [op |-> "deleteUserTheme", caller |-> caller,
                         args |-> [url |-> url], status |-> "ok", before |-> settings]
             /\ UNCHANGED <<badKeys, pending, catalog, panel>>

CompleteOnboarding(caller) ==
    IF caller = Anon
    THEN /\ last' = [op |-> "completeOnboarding", caller |-> caller,
                     status |-> "unauthorized"]
         /\ UNCHANGED <<db, badKeys, pending, catalog, panel>>
    ELSE LET settings == getSettings(db, caller)
         IN  /\ db' = Save(db, settings, CompleteOnboardingNewSettings(settings))
             /\ last' = [op |-> "completeOnboarding", caller |-> caller,
                         status |-> "ok", before |-> settings]
             /\ UNCHANGED <<badKeys, pending, catalog, panel>>

GetOnboardingStatus(caller) ==
    /\ last' = IF caller = Anon
               THEN [op |-> "getOnboardingStatus", caller |-> caller,
                     status |-> "unauthorized"]
               ELSE [op |-> "getOnboardingStatus", caller |-> caller, status |-> "ok",
                     value |-> [shouldShowOnboarding |->
                                   ~getSettings(db, caller).onboardingCompleted]]
    /\ UNCHANGED <<db, badKeys, pending, catalog, panel>>

\* mutant: the enabled flag is not consulted
DecryptedGeneralProviderKey_IgnoreEnabled(settings, providerId) ==
    LET general == settings.generalProviders
    IN  IF \/ providerId \notin DOMAIN general
           \/ general[providerId].encryptedKey = EmptyString
           \/ decryptThrows(general[providerId].encryptedKey)
        THEN [isNull |-> TRUE]
        ELSE [isNull |-> FALSE, key |-> decryptKey(general[providerId].encryptedKey)]

\* lines 397-410: null unless the provider is enabled, has a ciphertext and
\* decryptKey succeeds on it; a null result has no key field
DecryptedGeneralProviderKey(settings, providerId) ==
    LET general == settings.generalProviders
    IN  IF \/ providerId \notin DOMAIN general
           \/ ~general[providerId].enabled
           \/ general[providerId].encryptedKey = EmptyString
           \/ decryptThrows(general[providerId].encryptedKey)
        THEN [isNull |-> TRUE]
        ELSE [isNull |-> FALSE, key |-> decryptKey(general[providerId].encryptedKey)]

GetDecryptedGeneralProviderKey(userId, providerId) ==
    /\ last' = [op |-> "getDecryptedGeneralProviderKey", userId |-> userId,
                args |-> [providerId |-> providerId], status |-> "ok",
                value |-> DecryptedGeneralProviderKey(getSettings(db, userId), providerId)]
    /\ UNCHANGED <<db, badKeys, pending, catalog, panel>>

GetSupermemoryKey(userId) ==
    /\ last' = [op |-> "getSupermemoryKey", userId |-> userId, status |-> "ok",
                value |-> DecryptedGeneralProviderKey(getSettings(db, userId),
                                                      "supermemory")]
    /\ UNCHANGED <<db, badKeys, pending, catalog, panel>>

\* ------------------------------------------ mutations as read, then write
\* mutant: addUserTheme appends without looking at the cap
MutationResult_Uncapped(op, settings, args) ==
    IF op = "addUserTheme"
    THEN [status |-> "ok",
          write |-> ~Includes(settings.customThemes, args.url),
          newSettings |-> AddUserThemeNewSettings(settings, args.url)]
    ELSE IF op = "deleteUserTheme"
    THEN [status |-> "ok", write |-> TRUE,
          newSettings |-> DeleteUserThemeNewSettings(settings, args.url)]
    ELSE IF op = "completeOnboarding"
    THEN [status |-> "ok", write |-> TRUE,
          newSettings |-> CompleteOnboardingNewSettings(settings)]
    ELSE [status |-> "ok", write |-> TRUE,
          newSettings |-> PartialNewSettings(settings, args)]

\* what a mutation does with the settings it has read: the outcome it
\* reports, whether it writes, and the settings it writes
MutationResult(op, settings, args) ==
    IF op = "addUserTheme"
    THEN LET outcome == AddUserThemeOutcome(settings, args.url)
         IN  [status |-> IF outcome = "error" THEN "error" ELSE "ok",
              write |-> outcome = "write",
              newSettings |-> AddUserThemeNewSettings(settings, args.url)]
    ELSE IF op = "deleteUserTheme"
    THEN [status |-> "ok", write |-> TRUE,
          newSettings |-> DeleteUserThemeNewSettings(settings, args.url)]
    ELSE IF op = "completeOnboarding"
    THEN [status |-> "ok", write |-> TRUE,
          newSettings |-> CompleteOnboardingNewSettings(settings)]
    ELSE [status |-> "ok", write |-> TRUE,
          newSettings |-> PartialNewSettings(settings, args)]

Requests == {"r1", "r2"}

Idle == [phase |-> "idle"]

\* const settings = await getSettings(ctx, user.id): the mutation in slot r
\* has passed the identity check and holds the settings it has read
ReadSettings(r, op, caller, args) ==
    /\ pending[r] = Idle
    /\ caller # Anon
    /\ pending' = [pending EXCEPT ![r] =
                      [phase |-> "read", op |-> op, caller |-> caller,
                       args |-> args, settings |-> getSettings(db, caller)]]
    /\ UNCHANGED <<db, badKeys, last, catalog, panel>>

\* the rest of the handler: compute the new settings from the settings read
\* and patch or insert them
WriteSettings(r) ==
    /\ pending[r] # Idle
    /\ LET p == pending[r]
           result == MutationResult(p.op, p.settings, p.args)
       IN  /\ db' = IF result.write
                    THEN Save(db, p.settings, result.newSettings)
                    ELSE db
           /\ last' = IF result.status = "ok"
                      THEN [op |-> p.op, caller |-> p.caller, args |-> p.args,
                            status |-> "ok", before |-> p.settings,
                            found |-> getSettings(db, p.caller)]
                      ELSE [op |-> p.op, caller |-> p.caller, args |-> p.args,
                            status |-> result.status]
    /\ pending' = [pending EXCEPT ![r] = Idle]
    /\ UNCHANGED <<badKeys, catalog, panel>>

\* ---------------------------------------------------------- model selector
\* the ability names in the order of the default comparison of sort():
\* by UTF-16 code units
AbilityOrder ==
    <<"effort_control", "function_calling", "image_generation", "pdf", "reasoning",
      "vision", "web_search">>

Rank(ability) == CHOOSE i \in 1..Len(AbilityOrder) : AbilityOrder[i] = ability

\* insert x into the sorted sequence seq, after the elements that do not
\* compare greater
RECURSIVE InsertSorted(_, _)
InsertSorted(seq, x) ==
    IF seq = <<>> THEN <<x>>
    ELSE IF Rank(Head(seq)) <= Rank(x) THEN <<Head(seq)>> \o InsertSorted(Tail(seq), x)
    ELSE <<x>> \o seq

\* Array.prototype.sort() without a comparator
RECURSIVE Sort(_)
Sort(seq) ==
    IF seq = <<>> THEN seq
    ELSE InsertSorted(Sort(SubSeq(seq, 1, Len(seq) - 1)), seq[Len(seq)])

\* useAvailableModels: the shared models the selector shows are the catalog's
\* own objects, not copies
availableModels == catalog

\* model.abilities.sort().map(...): rendering the item of the i-th shown model
\* sorts that model's abilities array in place and shows the abilities in
\* the sorted order
RenderModelItem(i) ==
    /\ catalog' = [catalog EXCEPT ![i].abilities = Sort(availableModels[i].abilities)]
    /\ last' = [op |-> "ModelItem", args |-> [model |-> availableModels[i].id],
                value |-> Sort(availableModels[i].abilities)]
    /\ UNCHANGED <<db, badKeys, pending, panel>>

\* -------------------------------------------------------- reasoning panel
\* no Reasoning component has been rendered yet
Unmounted == [mounted |-> FALSE]

\* a prop that may be left out: "undefined", "true" or "false"
OptionalBoolean == {"undefined", "true", "false"}

\* const isControlled = open !== undefined
isControlled(p) == p.open # "undefined"

\* const isOpen = isControlled ? open : internalOpen
isOpen(p) == IF isControlled(p) THEN p.open = "true" ELSE p.internalOpen

\* the dependency array of the effect
Deps(p) == <<p.isStreaming, p.wasAutoOpened, isControlled(p)>>

\* the effect runs after the first render and after a render whose
\* dependencies differ from those of its last run
EffectPending(p) == p.deps # Deps(p)

\* first render: useState(false) twice.  fired counts the auto-opens since
\* isStreaming last became true.
MountReasoning(open, isStreaming) ==
    /\ panel = Unmounted
    /\ panel' = [mounted |-> TRUE, open |-> open, isStreaming |-> isStreaming,
                 internalOpen |-> FALSE, wasAutoOpened |-> FALSE, deps |-> <<>>,
                 fired |-> 0]
    /\ last' = [op |-> "render", from |-> "unmounted", became |-> isStreaming]
    /\ UNCHANGED <<db, badKeys, pending, catalog>>

\* the parent renders the component again with other props; a controlled
\* panel stays controlled and an uncontrolled one uncontrolled.  Effects of
\* the previous render have run before a new render starts.
RenderReasoning(open, isStreaming) ==
    /\ panel # Unmounted
    /\ ~EffectPending(panel)
    /\ <<open, isStreaming>> # <<panel.open, panel.isStreaming>>
    /\ (open = "undefined") <=> (panel.open = "undefined")
    /\ panel' = [panel EXCEPT !.open = open, !.isStreaming = isStreaming,
                              !.fired = IF isStreaming = "true" /\ panel.isStreaming # "true"
                                        THEN 0 ELSE @]
    /\ last' = [op |-> "render", from |-> panel.isStreaming, became |-> isStreaming]
    /\ UNCHANGED <<db, badKeys, pending, catalog>>

\* mutant: the panel is closed whenever isStreaming is not true
ReasoningEffect_ClosesAlways ==
    /\ panel # Unmounted
    /\ EffectPending(panel)
    /\ LET streaming == panel.isStreaming = "true"
           opens == streaming /\ ~panel.wasAutoOpened
           closes == ~streaming
       IN  /\ panel' = [panel EXCEPT
                 !.internalOpen = IF isControlled(panel) THEN @
                                  ELSE IF opens THEN TRUE
                                  ELSE IF closes THEN FALSE ELSE @,
                 !.wasAutoOpened = IF opens THEN TRUE ELSE IF closes THEN FALSE ELSE @,
                 !.fired = IF opens THEN @ + 1 ELSE @,
                 !.deps = Deps(panel)]
           /\ last' = [op |-> "effect", opens |-> opens, closes |-> closes]
    /\ UNCHANGED <<db, badKeys, pending, catalog>>

\* the body of useEffect, with the values of the render it belongs to
ReasoningEffect ==
    /\ panel # Unmounted
    /\ EffectPending(panel)
    /\ LET streaming == panel.isStreaming = "true"
           opens == streaming /\ ~panel.wasAutoOpened
           closes == ~streaming /\ panel.wasAutoOpened
       IN  /\ panel' = [panel EXCEPT
                 !.internalOpen = IF isControlled(panel) THEN @
                                  ELSE IF opens THEN TRUE
                                  ELSE IF closes THEN FALSE ELSE @,
                 !.wasAutoOpened = IF opens THEN TRUE ELSE IF closes THEN FALSE ELSE @,
                 !.fired = IF opens THEN @ + 1 ELSE @,
                 !.deps = Deps(panel)]
           /\ last' = [op |-> "effect", opens |-> opens, closes |-> closes]
    /\ UNCHANGED <<db, badKeys, pending, catalog>>

\* onClick={() => onOpenChange(!isOpen)} with handleOpenChange; value is
\* what onOpenChange is called with
ClickReasoningTrigger ==
    /\ panel # Unmounted
    /\ panel' = [panel EXCEPT !.internalOpen = IF isControlled(panel) THEN @
                                               ELSE ~isOpen(panel)]
    /\ last' = [op |-> "click", value |-> ~isOpen(panel)]
    /\ UNCHANGED <<db, badKeys, pending, catalog>>

\* --------------------------------------------------------------- inputs
OPENAI == <<"openai">>

I3_OPENAI == <<"i3-", "openai">>

MY_LLM == <<"my-llm">>

GPT_4O_MINI == <<"gpt-4o-mini">>

MY_MODEL == <<"my-model">>

KEY_1 == <<KeyNames[1]>>

\* { enabled, newKey? } with newKey absent or one of the keys in newKeys
CoreUpdates(newKeys) ==
    { [enabled |-> e] : e \in BOOLEAN }
    \cup { [enabled |-> e, newKey |-> k] : e \in BOOLEAN, k \in newKeys }

\* { name, enabled, endpoint, newKey? }
CustomUpdates(newKeys) ==
    { [name |-> <<"My LLM">>, enabled |-> e, endpoint |-> <<"https://llm.example/v1">>] :
        e \in BOOLEAN }
    \cup { [name |-> <<"My LLM">>, enabled |-> e, endpoint |-> <<"https://llm.example/v1">>,
            newKey |-> k] : e \in BOOLEAN, k \in newKeys }

ModelUpdates(providerId) ==
    { [enabled |-> e, modelId |-> GPT_4O_MINI, providerId |-> providerId,
       abilities |-> <<"vision">>] : e \in BOOLEAN }

\* one-key maps
Single(k, values) == { [x \in {k} |-> v] : v \in values }

\* partial updates that change one provider or one custom model
RegistryArgs ==
    { [coreProviderUpdates |-> u] :
        u \in Single(OPENAI, CoreUpdates({KEY_1})) \cup Single(I3_OPENAI, CoreUpdates({KEY_1})) }
    \cup { [customProviderUpdates |-> u] :
        u \in Single(OPENAI, CustomUpdates({KEY_1}) \cup {null}) }
    \cup { [customModelUpdates |-> u] :
        u \in Single(GPT_4O_MINI, ModelUpdates(OPENAI) \cup {null})
              \cup Single(MY_MODEL, ModelUpdates(MY_LLM) \cup {null}) }

ANTHROPIC == <<"anthropic">>

\* a newKey may also be supplied as the empty string
FormKeys == Keys \cup {EmptyString}

\* all objects with keys among ids and values among values
Objects(ids, values) == UNION { [d -> values] : d \in SUBSET ids }

\* what a client that has read the settings sends back as baseSettings
BaseOf(settings) ==
    [ [f \in NonSensitiveFields |-> settings[f]] EXCEPT !.searchProvider = "tavily" ]

FullArgs(userId, core, custom) ==
    [userId |-> userId, baseSettings |-> BaseOf(getSettings(db, userId)),
     coreProviders |-> core, customProviders |-> custom]

\* { enabled, newKey?, country? }
GeneralUpdates ==
    { [enabled |-> e] : e \in BOOLEAN }
    \cup { [enabled |-> e, newKey |-> k] : e \in BOOLEAN, k \in Keys }

BraveUpdates ==
    { [enabled |-> TRUE] } \cup { [enabled |-> TRUE, country |-> <<"US">>] }
    \cup { [enabled |-> TRUE, newKey |-> k] : k \in Keys }
    \cup { [enabled |-> TRUE, newKey |-> k, country |-> <<"US">>] : k \in Keys }

GeneralObjects ==
    { Spread(s, b) : s \in Objects({"supermemory"}, GeneralUpdates),
                     b \in Objects({"brave"}, BraveUpdates) }

\* ------------------------------------------------------- specifications
Init ==
    /\ db = <<>>
    /\ badKeys \in SUBSET Ciphertexts
    /\ last = [op |-> "init"]
    /\ pending = [r \in Requests |-> Idle]
    /\ catalog = MODELS_SHARED
    /\ panel = Unmounted

RegistryNext ==
    \/ \E args \in RegistryArgs : UpdateUserSettingsPartial("u1", args)
    \/ GetUserRegistryInternal("u1")

SpecRegistry == Init /\ [][RegistryNext]_vars

\* ------------------------------------------------- registry resolution
RegistryReturned == last.op = "getUserRegistryInternal" /\ last.status = "ok"

CatalogIds == { MODELS_SHARED[i].id : i \in 1..Len(MODELS_SHARED) }

EnabledCustomModelKeys(settings) ==
    { k \in DOMAIN settings.customModels : settings.customModels[k].enabled }

Elements(seq) == { seq[i] : i \in 1..Len(seq) }

UsableSegment(adapter, providers) ==
    LET c == FirstColon(adapter, 1)
        segment == IF c = 0 THEN adapter ELSE SubSeq(adapter, 1, c - 1)
    IN  segment \in DOMAIN providers \/ (Len(segment) >= 1 /\ segment[1] = "i3-")

\* C1: for every catalog model whose id is not the key of an enabled custom
\* model, the returned registry has an entry under the model's id whose
\* adapters are exactly the catalog adapters, in catalog order, whose provider
\* segment is a key of the resolved providers or starts with "i3-"; the entry
\* exists even when that list is empty.
C1_CatalogAdapters ==
    RegistryReturned =>
        \A i \in 1..Len(MODELS_SHARED) :
            LET m == MODELS_SHARED[i]
                reg == last.value
            IN  m.id \notin EnabledCustomModelKeys(reg.settings) =>
                    /\ m.id \in DOMAIN reg.models
                    /\ reg.models[m.id].adapters =
                         SelectSeq(m.adapters, LAMBDA a : UsableSegment(a, reg.providers))

\* an enabled core key keeps one adapter of two, and a model is left with none
C1_Witness ==
    /\ RegistryReturned
    /\ last.value.models[<<"gpt-4o">>].adapters = << <<"openai", ":", "gpt-4o">> >>
    /\ last.value.models[GPT_4O_MINI].adapters =
          << <<"i3-", "openai", ":", "gpt-4o-mini">>, <<"openai", ":", "gpt-4o-mini">> >>
    /\ last.value.models[<<"deepseek-v3">>].adapters = <<>>

InternalAdapterListed(reg, m) ==
    \A j \in 1..Len(m.adapters) :
        StartsWithI3(ProviderSegment(m.adapters[j])) =>
            m.adapters[j] \in Elements(reg.models[m.id].adapters)

\* C2 as stated: every internal-prefixed catalog adapter is among the
\* adapters of its model in every returned registry.
C2_InternalAlwaysListed ==
    RegistryReturned =>
        \A i \in 1..Len(MODELS_SHARED) : InternalAdapterListed(last.value, MODELS_SHARED[i])

\* C2 amended: every internal-prefixed catalog adapter is among the adapters
\* of its model in every returned registry, unless an enabled custom model
\* stored under the model's id has replaced the catalog entry.
C2_InternalListedUnlessOverridden ==
    RegistryReturned =>
        \A i \in 1..Len(MODELS_SHARED) :
            MODELS_SHARED[i].id \notin EnabledCustomModelKeys(last.value.settings) =>
                InternalAdapterListed(last.value, MODELS_SHARED[i])

\* no enabled credential at all, and the internal adapter is still listed
C2_Witness ==
    /\ RegistryReturned
    /\ DOMAIN last.value.providers = {}
    /\ OPENAI \in DOMAIN last.value.settings.coreAIProviders
    /\ last.value.models[GPT_4O_MINI].adapters = << <<"i3-", "openai", ":", "gpt-4o-mini">> >>

DisabledIn(credentials, id) == id \in DOMAIN credentials /\ ~credentials[id].enabled

EnabledIn(credentials, id) == id \in DOMAIN credentials /\ credentials[id].enabled

StoredDisabled(settings, id) ==
    DisabledIn(settings.coreAIProviders, id) \/ DisabledIn(settings.customAIProviders, id)

StoredEnabled(settings, id) ==
    EnabledIn(settings.coreAIProviders, id) \/ EnabledIn(settings.customAIProviders, id)

\* C3 as stated: no adapter listed in the returned registry has a provider
\* segment that matches a stored credential with enabled=false, and no
\* disabled credential's id is a key of the resolved providers.
C3_DisabledExcluded ==
    RegistryReturned =>
        LET reg == last.value
        IN  /\ \A k \in DOMAIN reg.models : \A a \in Elements(reg.models[k].adapters) :
                  ~StoredDisabled(reg.settings, ProviderSegment(a))
            /\ \A id \in DOMAIN reg.providers : ~StoredDisabled(reg.settings, id)

\* C3 amended: in a catalog entry not replaced by an enabled custom model, an
\* adapter whose provider segment matches a stored credential with
\* enabled=false is excluded unless the segment starts with "i3-" or the other
\* provider map stores an enabled credential under the same id; a provider id
\* is a key of the resolved providers only if a stored core or custom
\* credential with that id has enabled=true.
C3_DisabledExcludedUnlessInternalOrShadowed ==
    RegistryReturned =>
        LET reg == last.value
        IN  /\ \A i \in 1..Len(MODELS_SHARED) :
                  LET m == MODELS_SHARED[i]
                  IN  m.id \notin EnabledCustomModelKeys(reg.settings) =>
                        \A a \in Elements(reg.models[m.id].adapters) :
                            LET segment == ProviderSegment(a)
                            IN  StoredDisabled(reg.settings, segment) =>
                                    \/ StartsWithI3(segment)
                                    \/ StoredEnabled(reg.settings, segment)
            /\ \A id \in DOMAIN reg.providers : StoredEnabled(reg.settings, id)

\* a disabled core key with a stored ciphertext, and its adapter is left out
C3_Witness ==
    /\ RegistryReturned
    /\ DisabledIn(last.value.settings.coreAIProviders, OPENAI)
    /\ last.value.settings.coreAIProviders[OPENAI].encryptedKey # EmptyString
    /\ OPENAI \notin DOMAIN last.value.settings.customAIProviders
    /\ OPENAI \notin DOMAIN last.value.providers
    /\ last.value.models[<<"gpt-4o">>].adapters = <<>>

\* C4: an enabled custom model stored under key k yields models[k] with the
\* single adapter providerId:modelId, also when k is a catalog id; a disabled
\* one yields no entry of its own, and a catalog entry under k stays.
C4_CustomModels ==
    RegistryReturned =>
        LET reg == last.value
            custom == reg.settings.customModels
        IN  \A k \in DOMAIN custom :
                IF custom[k].enabled
                THEN /\ k \in DOMAIN reg.models
                     /\ Len(reg.models[k].adapters) = 1
                     /\ reg.models[k].adapters[1] =
                           custom[k].providerId \o <<":">> \o custom[k].modelId
                ELSE IF k \in CatalogIds
                     THEN /\ k \in DOMAIN reg.models
                          /\ reg.models[k].id = k
                          /\ "customProviderId" \notin DOMAIN reg.models[k]
                          /\ \E i \in 1..Len(MODELS_SHARED) :
                                /\ MODELS_SHARED[i].id = k
                                /\ Elements(reg.models[k].adapters)
                                      \subseteq Elements(MODELS_SHARED[i].adapters)
                     ELSE k \notin DOMAIN reg.models

\* an enabled custom model replaces a catalog entry while a disabled one
\* under a fresh key is not listed
C4_Witness ==
    /\ RegistryReturned
    /\ EnabledIn(last.value.settings.customModels, GPT_4O_MINI)
    /\ DisabledIn(last.value.settings.customModels, MY_MODEL)
    /\ last.value.models[GPT_4O_MINI].adapters = << <<"openai", ":", "gpt-4o-mini">> >>
    /\ MY_MODEL \notin DOMAIN last.value.models

\* C5 as stated: getUserRegistryInternal never raises, whatever the stored
\* credentials and whatever decryptKey does with them.
C5_RegistryNeverRaises ==
    last.op = "getUserRegistryInternal" => last.status = "ok"

\* ---------------------------------------------------------- full update
InitStore ==
    /\ db = <<>>
    /\ badKeys = {}
    /\ last = [op |-> "init"]
    /\ pending = [r \in Requests |-> Idle]
    /\ catalog = MODELS_SHARED
    /\ panel = Unmounted

FullNext ==
    \/ \E core \in Objects({OPENAI, ANTHROPIC}, CoreUpdates(FormKeys)) :
          UpdateUserSettings("u1", FullArgs("u1", core, EmptyObject))
    \/ \E custom \in Objects({MY_LLM}, CustomUpdates(FormKeys)) :
          UpdateUserSettings("u1", FullArgs("u1", EmptyObject, custom))
    \/ GetUserSettings("u1")

SpecFull == InitStore /\ [][FullNext]_vars

FullGeneralNext ==
    \/ \E general \in GeneralObjects :
          UpdateUserSettings("u1",
              Spread(FullArgs("u1", EmptyObject, EmptyObject),
                     [generalProviders |-> general]))
    \/ \E legacy \in GeneralUpdates, general \in Objects({"supermemory"}, GeneralUpdates) :
          UpdateUserSettings("u1",
              Spread(FullArgs("u1", EmptyObject, EmptyObject),
                     IF general = EmptyObject
                     THEN [supermemory |-> legacy]
                     ELSE [supermemory |-> legacy, generalProviders |-> general]))
    \/ GetUserSettings("u1")

SpecFullGeneral == InitStore /\ [][FullGeneralNext]_vars

FullUpdated == last.op = "updateUserSettings" /\ last.status = "ok"

Stored == getSettings(db, last.args.userId)

KeptKey(before, after, id) ==
    id \in DOMAIN before => after[id].encryptedKey = before[id].encryptedKey

C8_WholesaleReplace ==
    FullUpdated =>
        /\ DOMAIN Stored.coreAIProviders = DOMAIN last.args.coreProviders
        /\ DOMAIN Stored.customAIProviders = DOMAIN last.args.customProviders

\* a stored core provider with a ciphertext is dropped by an update that
\* names only another one
C8_Witness ==
    /\ FullUpdated
    /\ OPENAI \in DOMAIN last.before.coreAIProviders
    /\ last.before.coreAIProviders[OPENAI].encryptedKey # EmptyString
    /\ DOMAIN last.args.coreProviders = {ANTHROPIC}
    /\ DOMAIN Stored.coreAIProviders = {ANTHROPIC}

GeneralAbsent(args, id) ==
    /\ "generalProviders" \in DOMAIN args => id \notin DOMAIN args.generalProviders
    /\ id = "supermemory" => "supermemory" \notin DOMAIN args

GeneralNewKey(args, id) ==
    \/ /\ "generalProviders" \in DOMAIN args
       /\ id \in DOMAIN args.generalProviders
       /\ "newKey" \in DOMAIN args.generalProviders[id]
    \/ id = "supermemory" /\ "supermemory" \in DOMAIN args
                          /\ "newKey" \in DOMAIN args.supermemory

\* C9: after a successful full update a general sub-provider the request does
\* not name has the configuration it had before, and one named without
\* newKey has the ciphertext it had before.
C9_GeneralCarriedForward ==
    FullUpdated =>
        \A id \in GeneralProviderIds :
            LET before == last.before.generalProviders
                after == Stored.generalProviders
            IN  IF GeneralAbsent(last.args, id)
                THEN /\ id \in DOMAIN after <=> id \in DOMAIN before
                     /\ id \in DOMAIN before => after[id] = before[id]
                ELSE (~GeneralNewKey(last.args, id) /\ id \in DOMAIN before) =>
                        /\ id \in DOMAIN after
                        /\ after[id].encryptedKey = before[id].encryptedKey

\* supermemory is not named and keeps its configuration while brave is named
\* without newKey and keeps its ciphertext
C9_Witness ==
    /\ FullUpdated
    /\ GeneralAbsent(last.args, "supermemory")
    /\ ~GeneralAbsent(last.args, "brave")
    /\ ~GeneralNewKey(last.args, "brave")
    /\ {"supermemory", "brave"} \subseteq DOMAIN last.before.generalProviders
    /\ last.before.generalProviders["supermemory"].encryptedKey # EmptyString
    /\ last.before.generalProviders["brave"].encryptedKey # EmptyString
    /\ Stored.generalProviders["supermemory"] = last.before.generalProviders["supermemory"]
    /\ Stored.generalProviders["brave"].encryptedKey =
          last.before.generalProviders["brave"].encryptedKey

\* ------------------------------------------------------- partial update
PartialNext ==
    \/ \E custom \in Objects({MY_LLM, OPENAI}, CustomUpdates(Keys) \cup {null}) :
          UpdateUserSettingsPartial("u1", [customProviderUpdates |-> custom])
    \/ \E custom \in Objects({MY_LLM}, CustomUpdates(Keys)) :
          UpdateUserSettings("u1", FullArgs("u1", EmptyObject, custom))
    \/ GetUserSettings("u1")
    \/ GetUserSettingsInternal("u1")

SpecPartial == InitStore /\ [][PartialNext]_vars

PartialUpdated == last.op = "updateUserSettingsPartial" /\ last.status = "ok"

SettingsRead ==
    /\ last.op \in {"getUserSettings", "getUserSettingsInternal"}
    /\ last.status = "ok"

CustomProviderKeys(table, userId) == DOMAIN getSettings(table, userId).customAIProviders

\* the mutation recorded in result stored custom provider id
Upserted(result, id) ==
    /\ result.status = "ok"
    /\ \/ /\ result.op = "updateUserSettingsPartial"
          /\ "customProviderUpdates" \in DOMAIN result.args
          /\ id \in DOMAIN result.args.customProviderUpdates
          /\ result.args.customProviderUpdates[id] # null
       \/ /\ result.op = "updateUserSettings"
          /\ id \in DOMAIN result.args.customProviders

\* C10: a partial update that maps an existing custom provider key to null
\* removes the key from the stored customAIProviders; a read of the settings
\* returns only stored keys, and a key that is not stored stays out of the
\* store until a mutation upserts it.
C10_NullRemovesCustomProvider ==
    /\ [](PartialUpdated /\ "customProviderUpdates" \in DOMAIN last.args =>
            \A id \in DOMAIN last.args.customProviderUpdates :
                last.args.customProviderUpdates[id] = null =>
                    id \notin CustomProviderKeys(db, last.caller))
    /\ [](SettingsRead =>
            DOMAIN last.value.customAIProviders \subseteq CustomProviderKeys(db, "u1"))
    /\ [][\A id \in {MY_LLM, OPENAI} :
            (id \notin CustomProviderKeys(db, "u1") /\ id \in CustomProviderKeys(db', "u1"))
                => Upserted(last', id)]_vars

\* a stored custom provider with a ciphertext has just been removed by null
\* while another stored one stays
C10_Witness ==
    /\ PartialUpdated
    /\ "customProviderUpdates" \in DOMAIN last.args
    /\ DOMAIN last.args.customProviderUpdates = {MY_LLM}
    /\ last.args.customProviderUpdates[MY_LLM] = null
    /\ {MY_LLM, OPENAI} \subseteq DOMAIN last.before.customAIProviders
    /\ last.before.customAIProviders[MY_LLM].encryptedKey # EmptyString
    /\ CustomProviderKeys(db, "u1") = {OPENAI}

\* --------------------------------------------- partial update, four maps
\* one key of one of the four map-typed fields, upserted or set to null
MapArgs ==
    { [coreProviderUpdates |-> u] : u \in Single(OPENAI, CoreUpdates({KEY_1}) \cup {null}) }
    \cup { [customProviderUpdates |-> u] :
             u \in Single(MY_LLM, CustomUpdates({KEY_1}) \cup {null}) }
    \cup { [generalProviderUpdates |-> u] :
             u \in Single("tavily", GeneralUpdates \cup {null}) }
    \cup { [customModelUpdates |-> u] :
             u \in Single(MY_MODEL, ModelUpdates(MY_LLM) \cup {null}) }

PartialMapsNext ==
    \/ \E args \in MapArgs : UpdateUserSettingsPartial("u1", args)
    \/ GetUserSettings("u1")

SpecPartialMaps == InitStore /\ [][PartialMapsNext]_vars

PartialRequested == last.op = "updateUserSettingsPartial" /\ last.caller # Anon

\* the key of the update map is stored with the supplied flag, or is gone
\* when the update is null
UpsertedOrDeleted(updates, stored) ==
    \A id \in DOMAIN updates :
        IF updates[id] = null THEN id \notin DOMAIN stored
        ELSE id \in DOMAIN stored /\ stored[id].enabled = updates[id].enabled

MapUpdates(args, field) == IF field \in DOMAIN args THEN args[field] ELSE EmptyObject

\* C11 as stated: each of the four map-typed fields upserts per key, and for
\* each of the four a null value deletes the entry from the stored map.
C11_NullDeletesInAllFour ==
    PartialRequested =>
        LET stored == getSettings(db, last.caller)
        IN  /\ UpsertedOrDeleted(MapUpdates(last.args, "coreProviderUpdates"),
                                 stored.coreAIProviders)
            /\ UpsertedOrDeleted(MapUpdates(last.args, "customProviderUpdates"),
                                 stored.customAIProviders)
            /\ UpsertedOrDeleted(MapUpdates(last.args, "generalProviderUpdates"),
                                 stored.generalProviders)
            /\ UpsertedOrDeleted(MapUpdates(last.args, "customModelUpdates"),
                                 stored.customModels)

HasNull(updates) == \E id \in DOMAIN updates : updates[id] = null

\* C11 amended: all four map-typed fields upsert per key; a null value deletes
\* the entry only in customProviderUpdates and customModelUpdates, while a
\* request with a null value in coreProviderUpdates or generalProviderUpdates
\* is rejected by the argument validator and changes nothing.
C11_NullDeletesCustomOnly ==
    /\ [](PartialRequested =>
            IF \/ HasNull(MapUpdates(last.args, "coreProviderUpdates"))
               \/ HasNull(MapUpdates(last.args, "generalProviderUpdates"))
            THEN last.status = "invalid"
            ELSE LET stored == getSettings(db, last.caller)
                 IN  /\ last.status = "ok"
                     /\ UpsertedOrDeleted(MapUpdates(last.args, "coreProviderUpdates"),
                                          stored.coreAIProviders)
                     /\ UpsertedOrDeleted(MapUpdates(last.args, "customProviderUpdates"),
                                          stored.customAIProviders)
                     /\ UpsertedOrDeleted(MapUpdates(last.args, "generalProviderUpdates"),
                                          stored.generalProviders)
                     /\ UpsertedOrDeleted(MapUpdates(last.args, "customModelUpdates"),
                                          stored.customModels))
    /\ [][last'.status = "invalid" => db' = db]_vars

\* a stored custom model has just been deleted by null while the stored core
\* and general providers, which null cannot delete, are still there
C11_Witness ==
    /\ PartialRequested /\ last.status = "ok"
    /\ "customModelUpdates" \in DOMAIN last.args
    /\ last.args.customModelUpdates[MY_MODEL] = null
    /\ MY_MODEL \in DOMAIN last.before.customModels
    /\ MY_MODEL \notin DOMAIN getSettings(db, "u1").customModels
    /\ OPENAI \in DOMAIN getSettings(db, "u1").coreAIProviders
    /\ "tavily" \in DOMAIN getSettings(db, "u1").generalProviders

\* ------------------------------------------------- partial update, frame
THEME_5 == <<"https://themes.example/5">>

FrameArgs ==
    { [coreProviderUpdates |-> u] :
        u \in Single(OPENAI, CoreUpdates({KEY_1})) \cup Single(ANTHROPIC, CoreUpdates({KEY_1})) }
    \cup { [customProviderUpdates |-> u] :
        u \in Single(MY_LLM, {[name |-> <<"My LLM">>, enabled |-> TRUE,
                               endpoint |-> <<"https://llm.example/v1">>,
                               newKey |-> KEY_1], null}) }
    \cup { [generalProviderUpdates |-> u] :
        u \in Single("tavily", {[enabled |-> TRUE], [enabled |-> TRUE, newKey |-> KEY_1]}) }
    \cup { [customModelUpdates |-> u] :
        u \in Single(MY_MODEL, {[enabled |-> TRUE, modelId |-> GPT_4O_MINI,
                                 providerId |-> MY_LLM, abilities |-> <<"vision">>], null}) }
    \cup { [searchProvider |-> "brave"], [addTheme |-> THEME_5], [removeTheme |-> THEME_5] }

PartialFrameNext ==
    \/ \E args \in FrameArgs : UpdateUserSettingsPartial("u1", args)
    \/ CompleteOnboarding("u1")
    \/ GetUserSettings("u1")

SpecPartialFrame == InitStore /\ [][PartialFrameNext]_vars

\* the entries of a stored map that the update map does not name are the same
UnnamedEntriesKept(updates, before, after) ==
    \A id \in (DOMAIN before \cup DOMAIN after) \ DOMAIN updates :
        /\ id \in DOMAIN before /\ id \in DOMAIN after
        /\ after[id] = before[id]

\* C12: a partial update changes only what the request names: top-level
\* fields the request does not carry and map entries whose key the
\* corresponding update map does not carry are stored as they were.
C12_PartialFrame ==
    PartialUpdated =>
        LET stored == getSettings(db, last.caller)
            before == last.before
        IN  /\ stored.userId = before.userId
            /\ stored.onboardingCompleted = before.onboardingCompleted
            /\ "searchProvider" \notin DOMAIN last.args =>
                  stored.searchProvider = before.searchProvider
            /\ {"addTheme", "removeTheme"} \cap DOMAIN last.args = {} =>
                  stored.customThemes = before.customThemes
            /\ UnnamedEntriesKept(MapUpdates(last.args, "coreProviderUpdates"),
                                  before.coreAIProviders, stored.coreAIProviders)
            /\ UnnamedEntriesKept(MapUpdates(last.args, "customProviderUpdates"),
                                  before.customAIProviders, stored.customAIProviders)
            /\ UnnamedEntriesKept(MapUpdates(last.args, "generalProviderUpdates"),
                                  before.generalProviders, stored.generalProviders)
            /\ UnnamedEntriesKept(MapUpdates(last.args, "customModelUpdates"),
                                  before.customModels, stored.customModels)

\* one core provider is upserted while every other part of a fully populated
\* record is non-default
C12_Witness ==
    /\ PartialUpdated
    /\ "coreProviderUpdates" \in DOMAIN last.args
    /\ DOMAIN last.args.coreProviderUpdates = {OPENAI}
    /\ {OPENAI, ANTHROPIC} \subseteq DOMAIN last.before.coreAIProviders
    /\ last.before.coreAIProviders[ANTHROPIC].encryptedKey # EmptyString
    /\ MY_LLM \in DOMAIN last.before.customAIProviders
    /\ MY_MODEL \in DOMAIN last.before.customModels
    /\ "tavily" \in DOMAIN last.before.generalProviders
    /\ last.before.searchProvider = "brave"
    /\ last.before.customThemes = <<THEME_5>>
    /\ last.before.onboardingCompleted
    /\ getSettings(db, "u1").coreAIProviders[OPENAI] # last.before.coreAIProviders[OPENAI]

\* ----------------------------------------------------------------- themes
THEME_1 == <<"https://themes.example/1">>

THEME_6 == <<"https://themes.example/6">>

FourThemes ==
    <<THEME_1, <<"https://themes.example/2">>, <<"https://themes.example/3">>,
      <<"https://themes.example/4">>>>

\* the record of a user who has added four themes
RecordWithFourThemes ==
    Spread(DefaultSettings("u1"), [customThemes |-> FourThemes, _id |-> 1])

\* no record yet, or a record that already holds four themes
InitThemes ==
    /\ db \in {<<>>, <<RecordWithFourThemes>>}
    /\ badKeys = {}
    /\ last = [op |-> "init"]
    /\ pending = [r \in Requests |-> Idle]
    /\ catalog = MODELS_SHARED
    /\ panel = Unmounted

ThemesNext ==
    \/ \E url \in {THEME_1, THEME_5, THEME_6} : AddUserTheme("u1", url)
    \/ \E url \in {THEME_1, THEME_5} : DeleteUserTheme("u1", url)
    \/ \E url \in {THEME_1, THEME_5, THEME_6} :
          UpdateUserSettingsPartial("u1", [addTheme |-> url])
    \/ UpdateUserSettingsPartial("u1", [removeTheme |-> THEME_5])
    \/ UpdateUserSettingsPartial("u1", [addTheme |-> THEME_6, removeTheme |-> THEME_5])
    \/ GetUserSettings("u1")

SpecThemes == InitThemes /\ [][ThemesNext]_vars

Themes(table, userId) == getSettings(table, userId).customThemes

\* the request recorded in result adds url and removes nothing
AddsTheme(result, url) ==
    /\ result.caller # Anon
    /\ \/ result.op = "addUserTheme" /\ result.args.url = url
       \/ /\ result.op = "updateUserSettingsPartial"
          /\ "addTheme" \in DOMAIN result.args
          /\ result.args.addTheme = url
          /\ "removeTheme" \notin DOMAIN result.args

RemovesTheme(result, url) ==
    /\ result.caller # Anon
    /\ \/ result.op = "deleteUserTheme" /\ result.args.url = url
       \/ /\ result.op = "updateUserSettingsPartial"
          /\ "removeTheme" \in DOMAIN result.args
          /\ result.args.removeTheme = url
          /\ "addTheme" \notin DOMAIN result.args

ThemeRequest(result) ==
    result.op \in {"addUserTheme", "deleteUserTheme", "updateUserSettingsPartial"}

AtCapOrDuplicate(themes, url) == Len(themes) >= 5 \/ url \in Elements(themes)

\* C13: a request that adds a URL to a list that already holds 5 entries or
\* already holds that URL leaves the stored list as it was, through
\* addUserTheme and through the addTheme field of a partial update.
C13_AddAtCapOrDuplicateKeepsList ==
    [][\A url \in {THEME_1, THEME_5, THEME_6} :
          (/\ ThemeRequest(last')
           /\ AddsTheme(last', url)
           /\ AtCapOrDuplicate(Themes(db, "u1"), url))
              => Themes(db', "u1") = Themes(db, "u1")]_vars

\* a partial update has asked for a sixth URL and the list still holds five
C13_Witness ==
    /\ Len(Themes(db, "u1")) = 5
    /\ ThemeRequest(last)
    /\ AddsTheme(last, THEME_6)
    /\ THEME_6 \notin Elements(Themes(db, "u1"))
    /\ last.op = "updateUserSettingsPartial"

\* C14 as stated: adding beyond the cap or adding a duplicate completes
\* without an error through every theme-adding entry point.
C14_AddNeverRaises ==
    [][\A url \in {THEME_1, THEME_5, THEME_6} :
          (/\ ThemeRequest(last')
           /\ AddsTheme(last', url)
           /\ AtCapOrDuplicate(Themes(db, "u1"), url))
              => last'.status = "ok"]_vars

\* C14 amended: adding a duplicate URL completes without an error through
\* both entry points, and adding beyond the cap completes without an error
\* through the addTheme field of a partial update; addUserTheme with a new URL
\* at the cap raises an error and stores nothing.
C14_OnlyAddUserThemeRaisesAtCap ==
    [][\A url \in {THEME_1, THEME_5, THEME_6} :
          (/\ ThemeRequest(last')
           /\ AddsTheme(last', url)
           /\ AtCapOrDuplicate(Themes(db, "u1"), url))
              => IF /\ last'.op = "addUserTheme"
                    /\ url \notin Elements(Themes(db, "u1"))
                 THEN last'.status = "error" /\ db' = db
                 ELSE last'.status = "ok"]_vars

\* addUserTheme has raised on a sixth URL
C14_Witness ==
    /\ last.op = "addUserTheme"
    /\ last.status = "error"
    /\ last.args.url = THEME_6
    /\ Len(Themes(db, "u1")) = 5

\* two requests in a row by the same caller with the same arguments
Repeated(first, second) ==
    /\ ThemeRequest(first) /\ ThemeRequest(second)
    /\ first.op = second.op
    /\ first.caller = second.caller
    /\ first.args = second.args

\* C15: theme add and theme remove are idempotent: repeating an add or a
\* remove right after the same request leaves the stored list as the first
\* one left it.
C15_ThemeIdempotent ==
    [][\A url \in {THEME_1, THEME_5, THEME_6} :
          (/\ Repeated(last, last')
           /\ AddsTheme(last', url) \/ RemovesTheme(last', url))
              => Themes(db', "u1") = Themes(db, "u1")]_vars

\* an add of a URL the list already holds has completed and changed nothing
C15_Witness ==
    /\ last.op = "addUserTheme"
    /\ last.status = "ok"
    /\ last.args.url = THEME_5
    /\ THEME_5 \in Elements(last.before.customThemes)
    /\ Len(last.before.customThemes) < 5
    /\ Themes(db, "u1") = last.before.customThemes

\* ------------------------------------------- interleaved theme mutations
\* two request slots; each mutation reads the caller's settings in one step
\* and writes in a later one
InterleavedNext ==
    \/ \E r \in Requests, url \in {THEME_5, THEME_6} :
          ReadSettings(r, "addUserTheme", "u1", [url |-> url])
    \/ \E r \in Requests : ReadSettings(r, "deleteUserTheme", "u1", [url |-> THEME_5])
    \/ \E r \in Requests :
          ReadSettings(r, "updateUserSettingsPartial", "u1", [addTheme |-> THEME_6])
    \/ \E r \in Requests : WriteSettings(r)

SpecInterleaved == InitThemes /\ [][InterleavedNext]_vars

\* C16: whatever the order of the read and write steps of addUserTheme,
\* deleteUserTheme and updateUserSettingsPartial, every stored settings
\* record holds at most 5 theme URLs.
C16_AtMostFiveThemes == \A i \in 1..Len(db) : Len(db[i].customThemes) <= 5

\* a mutation that had read a list of four has written onto a list of five
C16_Witness ==
    /\ last.op \in {"addUserTheme", "updateUserSettingsPartial"}
    /\ last.status = "ok"
    /\ "found" \in DOMAIN last
    /\ "_id" \in DOMAIN last.before
    /\ Len(last.before.customThemes) = 4
    /\ Len(last.found.customThemes) = 5
    /\ Len(db[last.before._id].customThemes) = 5

RecordsOf(userId) == {i \in 1..Len(db) : db[i].userId = userId}

\* C19: there is at most one stored settings record per userId, also when two
\* first-time mutations of one user interleave their read and their insert.
C19_OneRecordPerUser == \A u \in Users : Cardinality(RecordsOf(u)) <= 1

\* the slot r finishes a theme mutation whose snapshot is no longer what the
\* table holds
StaleWrite(r) ==
    /\ pending[r] # Idle
    /\ pending'[r] = Idle
    /\ pending[r].op \in {"addUserTheme", "deleteUserTheme"}
    /\ "_id" \in DOMAIN pending[r].settings
    /\ db[pending[r].settings._id] # pending[r].settings

\* the list a theme mutation with the given arguments makes of the list it read
ThemesWritten(op, themes, url) ==
    IF op = "deleteUserTheme" THEN SelectSeq(themes, LAMBDA t : t # url)
    ELSE Append(themes, url)

FullArgsNaming(userId, owner) ==
    [userId |-> userId,
     baseSettings |-> [BaseOf(getSettings(db, userId)) EXCEPT !.userId = owner],
     coreProviders |-> EmptyObject, customProviders |-> EmptyObject]

Callers == Users \cup {Anon}

AuthNext ==
    /\ Len(db) < MaxRecords
    /\ \/ \E caller \in Callers, userId \in Users, owner \in Users :
             UpdateUserSettings(caller, FullArgsNaming(userId, owner))
       \/ \E caller \in Callers :
             UpdateUserSettingsPartial(caller, [searchProvider |-> "brave"])
       \/ \E caller \in Callers : AddUserTheme(caller, THEME_5)
       \/ \E caller \in Callers : DeleteUserTheme(caller, THEME_5)
       \/ \E caller \in Callers : CompleteOnboarding(caller)

SpecAuth == InitStore /\ [][AuthNext]_vars

Mutations ==
    {"updateUserSettings", "updateUserSettingsPartial", "addUserTheme",
     "deleteUserTheme", "completeOnboarding"}

\* the request has no resolved identity, or names a userId that is not the
\* caller's
NotAuthorized(request) ==
    \/ request.caller = Anon
    \/ request.op = "updateUserSettings" /\ request.args.userId # request.caller

\* the documents that a step has created or changed
Written(before, after) ==
    {i \in 1..Len(after) : i > Len(before) \/ after[i] # before[i]}

\* C17: a mutation without a resolved identity, or updateUserSettings with a
\* userId that is not the caller's, fails as unauthorized and changes no
\* record; a mutation that succeeds creates or changes only records whose
\* userId is the caller's, before and after the write.
C17_OnlyCallersRecord ==
    [][last'.op \in Mutations =>
          /\ NotAuthorized(last') => last'.status = "unauthorized" /\ db' = db
          /\ \A i \in Written(db, db') :
                /\ db'[i].userId = last'.caller
                /\ i <= Len(db) => db[i].userId = last'.caller]_vars

\* ---------------------------------------------------------------- reads
SUPERMEMORY_KEY ==
    [generalProviderUpdates |->
        [p \in {"supermemory"} |-> [enabled |-> TRUE, newKey |-> KEY_1]]]

ReadsNext ==
    \/ \E caller \in Callers : GetUserSettings(caller)
    \/ \E userId \in Users : GetUserSettingsInternal(userId)
    \/ \E userId \in Users : GetUserRegistryInternal(userId)
    \/ \E caller \in Callers : GetOnboardingStatus(caller)
    \/ \E userId \in Users : GetSupermemoryKey(userId)
    \/ \E userId \in Users, providerId \in {"supermemory", "tavily"} :
          GetDecryptedGeneralProviderKey(userId, providerId)
    \/ \E caller \in Users : UpdateUserSettingsPartial(caller, SUPERMEMORY_KEY)
    \/ \E caller \in Users : CompleteOnboarding(caller)
    \/ /\ Len(db) < MaxRecords
       /\ \E owner \in Users : UpdateUserSettings("u2", FullArgsNaming("u2", owner))

SpecReads == InitStore /\ [][ReadsNext]_vars

Reads ==
    {"getUserSettings", "getUserSettingsInternal", "getUserRegistryInternal",
     "getOnboardingStatus", "getSupermemoryKey", "getDecryptedGeneralProviderKey"}

\* the user a read is about: the caller of a public query, the userId
\* argument of an internal one
ReadFor(request) ==
    IF request.op \in {"getUserSettings", "getOnboardingStatus"}
    THEN request.caller ELSE request.userId

HasRecord(table, userId) == \E i \in 1..Len(table) : table[i].userId = userId

\* what each read returns when it is answered from the given settings
AnsweredFrom(request, settings) ==
    IF request.op \in {"getUserSettings", "getUserSettingsInternal"}
    THEN request.value = settings
    ELSE IF request.op = "getOnboardingStatus"
    THEN request.value.shouldShowOnboarding = ~settings.onboardingCompleted
    ELSE IF request.op = "getUserRegistryInternal"
    THEN /\ request.value.settings = settings
         /\ DOMAIN request.value.providers = DOMAIN settings.coreAIProviders
         /\ DOMAIN request.value.models = CatalogIds
    ELSE request.value.isNull

ReadAfterWriteNext ==
    /\ Len(db) < MaxRecords
    /\ \/ \E caller \in Users, owner \in Users :
             UpdateUserSettings(caller, FullArgsNaming(caller, owner))
       \/ \E caller \in Users :
             UpdateUserSettingsPartial(caller, [searchProvider |-> "brave"])
       \/ \E caller \in Users : AddUserTheme(caller, THEME_5)
       \/ \E caller \in Users : DeleteUserTheme(caller, THEME_5)
       \/ \E caller \in Users : CompleteOnboarding(caller)
       \/ \E caller \in Users : GetUserSettings(caller)

SpecReadAfterWrite == InitStore /\ [][ReadAfterWriteNext]_vars

\* the request is a mutation that succeeded and wrote a document
Wrote(request) ==
    /\ request.op \in Mutations
    /\ request.status = "ok"
    /\ request.op = "addUserTheme" =>
          request.args.url \notin Elements(request.before.customThemes)

\* the document that request wrote: the one it patched by _id, or the one it
\* inserted at the end of the table
WrittenDocument(table, request) ==
    IF "_id" \in DOMAIN request.before
    THEN table[request.before._id]
    ELSE table[Len(table)]

\* C21: when a mutation of a user has succeeded and the same user reads the
\* settings next, getUserSettings returns the document that mutation wrote,
\* whether it was inserted or patched.
C21_ReadYourWrites ==
    [][(/\ Wrote(last)
        /\ last'.op = "getUserSettings"
        /\ last'.caller = last.caller)
           => /\ last'.status = "ok"
              /\ last'.value = WrittenDocument(db, last)]_vars

\* ------------------------------------------------ general provider keys
GeneralKeysNext ==
    \/ \E providerId \in {"supermemory", "tavily"}, update \in GeneralUpdates :
          UpdateUserSettingsPartial("u1",
              [generalProviderUpdates |-> [p \in {providerId} |-> update]])
    \/ GetSupermemoryKey("u1")
    \/ \E providerId \in {"supermemory", "tavily", "serper"} :
          GetDecryptedGeneralProviderKey("u1", providerId)

SpecGeneralKeys == Init /\ [][GeneralKeysNext]_vars

KeyRead == last.op \in {"getSupermemoryKey", "getDecryptedGeneralProviderKey"}

\* the general provider a key read asks for
KeyReadProvider ==
    IF last.op = "getSupermemoryKey" THEN "supermemory" ELSE last.args.providerId

\* the stored provider is enabled and holds a ciphertext that decrypts
UsableGeneral(general, providerId) ==
    /\ providerId \in DOMAIN general
    /\ general[providerId].enabled
    /\ general[providerId].encryptedKey # EmptyString
    /\ general[providerId].encryptedKey \notin badKeys

\* C22: getSupermemoryKey and getDecryptedGeneralProviderKey never raise;
\* they return null when the provider is absent, disabled, has an empty
\* encryptedKey or its key fails to decrypt, and otherwise return the key
\* whose ciphertext is stored.
C22_KeyOrNull ==
    KeyRead =>
        LET general == getSettings(db, last.userId).generalProviders
        IN  /\ last.status = "ok"
            /\ IF UsableGeneral(general, KeyReadProvider)
               THEN /\ ~last.value.isNull
                    /\ encryptKey(last.value.key) = general[KeyReadProvider].encryptedKey
               ELSE last.value.isNull

\* a disabled provider with a stored key has been asked for and null returned
C22_Witness ==
    /\ last.op = "getDecryptedGeneralProviderKey"
    /\ last.args.providerId = "tavily"
    /\ LET general == getSettings(db, "u1").generalProviders
       IN  /\ "tavily" \in DOMAIN general
           /\ ~general["tavily"].enabled
           /\ general["tavily"].encryptedKey = encryptKey(KEY_1)
           /\ general["tavily"].encryptedKey \notin badKeys
    /\ last.value.isNull

\* ------------------------------------------------------ provider factory
\* API keys are sequences of characters; the sentinel is one token
INTERNAL == <<"internal">>

Whitespace == {" ", "\t", "\n"}

\* apiKey.trim()
RECURSIVE Trim(_)
Trim(s) ==
    IF s = <<>> THEN s
    ELSE IF Head(s) \in Whitespace THEN Trim(Tail(s))
    ELSE IF s[Len(s)] \in Whitespace THEN Trim(SubSeq(s, 1, Len(s) - 1))
    ELSE s

\* the environment variable each case of the switch reads
EnvVar(providerId) ==
    CASE providerId = "openai" -> "OPENAI_API_KEY"
      [] providerId = "anthropic" -> "ANTHROPIC_API_KEY"
      [] providerId = "google" -> "GOOGLE_API_KEY"
      [] providerId = "groq" -> "GROQ_API_KEY"
      [] providerId = "fal" -> "FAL_API_KEY"

\* process.env.NAME: undefined when the variable is not set
EnvLookup(env, name) ==
    IF name \in DOMAIN env THEN [isUndefined |-> FALSE, value |-> env[name]]
    ELSE [isUndefined |-> TRUE]

\* createOpenAI, createAnthropic, ...: the client holds the options it was
\* given; construction does not look at the key
createClient(providerId, apiKey) == [provider |-> providerId, apiKey |-> apiKey]

RecognizedProviders == {"openai", "anthropic", "google", "groq", "openrouter", "fal"}

\* mutant: a key of whitespace only is accepted
createProvider_NoTrim(providerId, apiKey, env) ==
    IF apiKey # INTERNAL /\ apiKey = EmptyString
    THEN [status |-> "error", message |-> "API key is required for non-internal providers"]
    ELSE IF providerId = "openrouter"
    THEN [status |-> "ok", envRead |-> {},
          client |-> createClient(providerId, [isUndefined |-> FALSE, value |-> apiKey])]
    ELSE IF providerId \in RecognizedProviders
    THEN [status |-> "ok",
          envRead |-> IF apiKey = INTERNAL THEN {EnvVar(providerId)} ELSE {},
          client |-> createClient(providerId,
                        IF apiKey = INTERNAL THEN EnvLookup(env, EnvVar(providerId))
                        ELSE [isUndefined |-> FALSE, value |-> apiKey])]
    ELSE [status |-> "error", message |-> "Unknown provider"]

\* the result of createProvider under the environment env, with the set of
\* environment variables it has read
createProvider(providerId, apiKey, env) ==
    IF apiKey # INTERNAL /\ (apiKey = EmptyString \/ Trim(apiKey) = EmptyString)
    THEN [status |-> "error", message |-> "API key is required for non-internal providers"]
    ELSE IF providerId = "openrouter"
    THEN [status |-> "ok", envRead |-> {},
          client |-> createClient(providerId, [isUndefined |-> FALSE, value |-> apiKey])]
    ELSE IF providerId \in RecognizedProviders
    THEN [status |-> "ok",
          envRead |-> IF apiKey = INTERNAL THEN {EnvVar(providerId)} ELSE {},
          client |-> createClient(providerId,
                        IF apiKey = INTERNAL THEN EnvLookup(env, EnvVar(providerId))
                        ELSE [isUndefined |-> FALSE, value |-> apiKey])]
    ELSE [status |-> "error", message |-> "Unknown provider"]

CreateProvider(providerId, apiKey, env) ==
    /\ last' = [op |-> "createProvider",
                args |-> [providerId |-> providerId, apiKey |-> apiKey],
                env |-> env,
                result |-> createProvider(providerId, apiKey, env)]
    /\ UNCHANGED <<db, badKeys, pending, catalog, panel>>

ApiKeys ==
    {INTERNAL, EmptyString, <<" ">>, <<" ", "\t">>, <<"s", "k">>, <<" ", "s", "k", " ">>,
     <<" ", "internal">>}

EnvNames ==
    {"OPENAI_API_KEY", "ANTHROPIC_API_KEY", "GOOGLE_API_KEY", "GROQ_API_KEY",
     "FAL_API_KEY"}

Environments == UNION { [set -> {<<"e", "n", "v">>}] : set \in SUBSET EnvNames }

ProviderNext ==
    \E providerId \in RecognizedProviders \cup {"mistral"}, apiKey \in ApiKeys,
       env \in Environments :
        CreateProvider(providerId, apiKey, env)

SpecProvider == InitStore /\ [][ProviderNext]_vars

Blank(apiKey) == \A i \in 1..Len(apiKey) : apiKey[i] \in Whitespace

\* C23: for a recognized provider id, createProvider fails exactly when the
\* apiKey is not the sentinel and is empty or only whitespace; with the
\* sentinel it constructs a client whether or not the provider's environment
\* variable is set; and it reads an environment variable only when the
\* sentinel is supplied.
C23_CreateProvider ==
    (last.op = "createProvider" /\ last.args.providerId \in RecognizedProviders) =>
        /\ last.result.status = "error"
              <=> (last.args.apiKey # INTERNAL /\ Blank(last.args.apiKey))
        /\ last.args.apiKey = INTERNAL => last.result.status = "ok"
        /\ last.result.status = "ok" =>
              (last.result.envRead # {} => last.args.apiKey = INTERNAL)

\* anthropic with the sentinel and ANTHROPIC_API_KEY unset: a client is built
C23_Witness ==
    /\ last.op = "createProvider"
    /\ last.args = [providerId |-> "anthropic", apiKey |-> INTERNAL]
    /\ "ANTHROPIC_API_KEY" \notin DOMAIN last.env
    /\ last.result.status = "ok"
    /\ last.result.client.apiKey.isUndefined

\* ------------------------------------------- custom models and providers
CoreProviderIds == { CoreProviders[i] : i \in 1..Len(CoreProviders) }

\* C24: in every stored record the providerId of each custom model names a
\* custom provider of that record or a core provider.
C24_ModelProviderExists ==
    \A i \in 1..Len(db) :
        \A m \in DOMAIN db[i].customModels :
            \/ db[i].customModels[m].providerId \in DOMAIN db[i].customAIProviders
            \/ db[i].customModels[m].providerId \in CoreProviderIds

\* ------------------------------------------------------- catalog at rest
\* the catalog models whose items are rendered: one with a single ability,
\* and four whose abilities are not in sorted order
RenderedModels == {1, 2, 3, 4, 9}

CatalogNext ==
    \/ \E i \in RenderedModels : RenderModelItem(i)
    \/ \E update \in CoreUpdates({KEY_1}) :
          UpdateUserSettingsPartial("u1", [coreProviderUpdates |-> [p \in {OPENAI} |-> update]])
    \/ GetUserRegistryInternal("u1")

SpecCatalog == InitStore /\ [][CatalogNext]_vars

\* C25: no operation that consumes MODELS_SHARED changes a field, or the
\* order of the elements of a field, of a catalog entry.
C25_CatalogNeverMutated == catalog = MODELS_SHARED

\* ------------------------------------ interleaved mutations, other fields
InterleavedFieldsNext ==
    \/ \E r \in Requests : ReadSettings(r, "addUserTheme", "u1", [url |-> THEME_5])
    \/ \E r \in Requests :
          ReadSettings(r, "updateUserSettingsPartial", "u1", [searchProvider |-> "brave"])
    \/ \E r \in Requests :
          ReadSettings(r, "updateUserSettingsPartial", "u1",
                       [coreProviderUpdates |-> [p \in {OPENAI} |-> [enabled |-> TRUE]]])
    \/ \E r \in Requests : ReadSettings(r, "completeOnboarding", "u1", EmptyObject)
    \/ \E r \in Requests : WriteSettings(r)

SpecInterleavedFields == InitThemes /\ [][InterleavedFieldsNext]_vars

\* the settings fields a mutation means to change
Intended(op, args) ==
    IF op \in {"addUserTheme", "deleteUserTheme"} THEN {"customThemes"}
    ELSE IF op = "completeOnboarding" THEN {"onboardingCompleted"}
    ELSE (IF "searchProvider" \in DOMAIN args THEN {"searchProvider"} ELSE {})
         \cup (IF "coreProviderUpdates" \in DOMAIN args THEN {"coreAIProviders"} ELSE {})
         \cup (IF DOMAIN args \cap {"addTheme", "removeTheme"} # {}
               THEN {"customThemes"} ELSE {})

\* C26: when mutations of one user interleave, the write of a mutation leaves
\* every field it did not mean to change at the value stored at that moment,
\* so changes of two mutations to disjoint fields both survive.
C26_DisjointChangesSurvive ==
    [][\A r \in Requests :
          (/\ pending[r] # Idle
           /\ pending'[r] = Idle
           /\ "_id" \in DOMAIN pending[r].settings)
              => \A f \in DOMAIN db[pending[r].settings._id]
                            \ Intended(pending[r].op, pending[r].args) :
                    db'[pending[r].settings._id][f] = db[pending[r].settings._id][f]]_vars

\* ------------------------------------------------------------ onboarding
OnboardingNext ==
    \/ \E r \in Requests : ReadSettings(r, "completeOnboarding", "u1", EmptyObject)
    \/ \E r \in Requests :
          ReadSettings(r, "updateUserSettingsPartial", "u1", [searchProvider |-> "brave"])
    \/ \E r \in Requests : ReadSettings(r, "addUserTheme", "u1", [url |-> THEME_5])
    \/ \E r \in Requests : ReadSettings(r, "deleteUserTheme", "u1", [url |-> THEME_5])
    \/ \E r \in Requests : WriteSettings(r)
    \/ GetOnboardingStatus("u1")

SpecOnboarding == InitStore /\ [][OnboardingNext]_vars

OnboardingStatusRead ==
    last.op = "getOnboardingStatus" /\ last.caller = "u1" /\ last.status = "ok"

\* the flag getOnboardingStatus reads for u1
Completed(table) == getSettings(table, "u1").onboardingCompleted

\* C27: once completeOnboarding has succeeded for a user, every later
\* getOnboardingStatus of that user returns shouldShowOnboarding = false,
\* whatever partial updates, theme mutations and completions follow or
\* interleave, and before any completion it returns true.  As steps: a
\* successful completeOnboarding leaves the user's flag set, no step clears
\* a set flag, a status read returns the negation of the flag, and the flag
\* is set only by completeOnboarding or by a write of settings that were
\* read with it set.
C27_OnboardingStaysCompleted ==
    /\ [][(/\ last'.op = "completeOnboarding"
           /\ last'.caller = "u1"
           /\ last'.status = "ok") => Completed(db')]_vars
    /\ [][Completed(db) => Completed(db')]_vars
    /\ [](OnboardingStatusRead => (last.value.shouldShowOnboarding <=> ~Completed(db)))
    /\ [][\A i \in 1..Len(db') :
             (db'[i].onboardingCompleted /\ (i <= Len(db) => ~db[i].onboardingCompleted))
                => \/ last'.op = "completeOnboarding"
                   \/ last'.before.onboardingCompleted]_vars

\* ------------------------------------- full update, new custom provider
\* the custom provider ids that args names without a usable newKey and that
\* settings does not hold
NewWithoutKey(settings, args) ==
    { id \in DOMAIN args.customProviders :
        /\ ~Truthy(args.customProviders[id], "newKey")
        /\ id \notin DOMAIN settings.customAIProviders }

\* C28: an authorized full update completes and stores every custom provider
\* that it names without a newKey and that had no stored entry with an empty
\* encryptedKey; a full update that fails persists nothing.
C28_NewCustomProviderStoredWithEmptyKey ==
    [][(last'.op = "updateUserSettings" /\ last'.caller = last'.args.userId) =>
          /\ last'.status = "ok"
          /\ \A id \in NewWithoutKey(getSettings(db, last'.caller), last'.args) :
                /\ id \in DOMAIN getSettings(db', last'.caller).customAIProviders
                /\ getSettings(db', last'.caller).customAIProviders[id].encryptedKey
                      = EmptyString
          /\ last'.status # "ok" => db' = db]_vars

\* ------------------------------------------------- themes are a set
NoDuplicates(seq) == \A i, j \in 1..Len(seq) : seq[i] = seq[j] => i = j

\* C29: whatever the order of the read and write steps of addUserTheme,
\* deleteUserTheme and updateUserSettingsPartial, no stored customThemes list
\* holds a URL twice, and the list a delete writes does not hold the deleted
\* URL.
C29_ThemesAreASet ==
    /\ [](\A i \in 1..Len(db) : NoDuplicates(db[i].customThemes))
    /\ [][\A r \in Requests :
             (/\ pending[r] # Idle
              /\ pending'[r] = Idle
              /\ pending[r].op = "deleteUserTheme")
                 => \A i \in Written(db, db') :
                       pending[r].args.url \notin Elements(db'[i].customThemes)]_vars

\* an add from a stale snapshot has written a list in which the URL added
\* meanwhile by the other request is not repeated
C29_Witness ==
    /\ last.op \in {"addUserTheme", "updateUserSettingsPartial"}
    /\ last.status = "ok"
    /\ "found" \in DOMAIN last
    /\ "_id" \in DOMAIN last.before
    /\ last.args \in {[url |-> THEME_6], [addTheme |-> THEME_6]}
    /\ THEME_6 \in Elements(last.found.customThemes)
    /\ THEME_6 \notin Elements(last.before.customThemes)
    /\ Len(db[last.before._id].customThemes) = Len(last.before.customThemes) + 1

\* -------------------------------------------------------- reasoning panel
ReasoningNext ==
    \/ \E open \in OptionalBoolean, isStreaming \in OptionalBoolean :
          MountReasoning(open, isStreaming)
    \/ \E open \in OptionalBoolean, isStreaming \in OptionalBoolean :
          RenderReasoning(open, isStreaming)
    \/ ReasoningEffect
    \/ ClickReasoningTrigger

\* React runs the effect of a committed render
SpecReasoning == InitStore /\ [][ReasoningNext]_vars /\ WF_vars(ReasoningEffect)

Uncontrolled(p) == p # Unmounted /\ p.open = "undefined"

Controlled(p) == p # Unmounted /\ p.open # "undefined"

Streaming(p) == p.isStreaming = "true"

PanelOpen == panel # Unmounted /\ isOpen(panel)

PanelClosed == panel # Unmounted /\ ~isOpen(panel)

\* the last render changed isStreaming to true, or from true
StreamingStarted == last.op = "render" /\ last.from # "true" /\ last.became = "true"

StreamingEnded == last.op = "render" /\ last.from = "true" /\ last.became # "true"

\* C30: an uncontrolled panel is eventually open after isStreaming has
\* become true and eventually closed after isStreaming has then stopped
\* being true; the auto-open fires at most once per streaming episode, after
\* it only a click opens the panel while streaming lasts, and the effect
\* closes only a panel whose auto-open has fired; a controlled panel is open
\* exactly when its open prop is true, also as seen by the trigger.
C30_ReasoningPanel ==
    /\ (Uncontrolled(panel) /\ StreamingStarted) ~> PanelOpen
    /\ (Uncontrolled(panel) /\ StreamingEnded) ~> PanelClosed
    /\ [](panel # Unmounted => panel.fired <= 1)
    /\ [][(/\ Uncontrolled(panel)
           /\ Streaming(panel) /\ Streaming(panel')
           /\ panel.fired > 0
           /\ ~isOpen(panel) /\ isOpen(panel'))
              => last'.op = "click"]_vars
    /\ [][(Uncontrolled(panel) /\ last'.op = "effect" /\ isOpen(panel) /\ ~isOpen(panel'))
              => panel.fired > 0]_vars
    /\ [](Controlled(panel) =>
             /\ isOpen(panel) <=> panel.open = "true"
             /\ last.op = "click" => (last.value <=> panel.open # "true"))

\* the panel was opened by the effect, the user has closed it, and it is
\* still closed while streaming goes on and no effect is waiting
C30_Witness ==
    /\ Uncontrolled(panel)
    /\ Streaming(panel)
    /\ panel.fired = 1
    /\ last.op = "click"
    /\ ~isOpen(panel)
    /\ ~EffectPending(panel)

====
